---- MODULE Spec2Model ----
(***************************************************************************)
(* Session middleware (src/api/middlewares/session.py), session store      *)
(* (src/lib/memory/redis.py), the auth routes and dependencies and the     *)
(* permission model (src/models/user) of the fastapi-template repository.  *)
(***************************************************************************)
EXTENDS Integers, Sequences, FiniteSets, TLC

\* ---------------------------------------------------------------- bounds
NumIds == 2
NumReqs == 2
MaxRequests == 2
MaxConcRequests == 2
MaxOps == 2
FewOps == 1
MaxSkipRequests == 1
MaxRows == 2

\* ------------------------------------------------------ program constants
SESSION_COOKIE_MAX_AGE == 604800
SessionTtl == 900
HTTP_403_FORBIDDEN == 403

session_cookie_name == "sid"
secret_key == "server-secret"

\* ------------------------------------------------------------ value sets
Ids == 1..NumIds
NoId == 0
Reqs == 1..NumReqs
Keys == {"__cause__", "user", "x"}
AppValues == {"v1"}
Users == {"u1"}
Missing == "MISSING"
SecretKeys == {secret_key, "other-secret", "third-secret"}

\* ------------------------------------------------- session envelope (dict)
\* a Python dict with string keys is a function to values, Missing = no key
EmptyBucket == [k \in Keys |-> Missing]

\* session.store is None
NoneEnvelope == [none |-> TRUE, store |-> EmptyBucket]

\* the envelope {"store": bucket}
Envelope(bucket) == [none |-> FALSE, store |-> bucket]

\* ------------------------------------------------------------ CookieSigner
NoCookie == [kind |-> "none", name |-> "", sid |-> NoId, key |-> "", old |-> FALSE]

GarbageCookie == [kind |-> "garbage", name |-> "", sid |-> NoId, key |-> "", old |-> FALSE]

\* SignatureSerializer(key).encode({name: sid}): the payload and the key of
\* its signature; "old" says whether more than expired_in seconds passed
\* since it was issued
encode(key, name, sid) ==
    [kind |-> "signed", name |-> name, sid |-> sid, key |-> key, old |-> FALSE]

\* a signed value of {cookie_name: sid} as a client holds it
SignedCookie(key, sid, old) == [encode(key, session_cookie_name, sid) EXCEPT !.old = old]

NoDict == [ok |-> FALSE, name |-> "", sid |-> NoId, err |-> ""]

\* decode that reads the payload without checking whose signature it bears
decode_unverified(key, expired_in, token) ==
    IF token.kind # "signed"
    THEN [NoDict EXCEPT !.err = "InvalidSignature"]
    ELSE IF expired_in # 0 /\ token.old
    THEN [NoDict EXCEPT !.err = "SignatureExpired"]
    ELSE [ok |-> TRUE, name |-> token.name, sid |-> token.sid, err |-> ""]

\* decode that never passes max_age to the signer: no cookie expires
decode_no_max_age(key, expired_in, token) ==
    IF token.kind # "signed" \/ token.key # key
    THEN [NoDict EXCEPT !.err = "InvalidSignature"]
    ELSE [ok |-> TRUE, name |-> token.name, sid |-> token.sid, err |-> ""]

\* decode that passes max_age to the signer also when expired_in is 0: every
\* value is older than 0 seconds
decode_always_max_age(key, expired_in, token) ==
    IF token.kind # "signed" \/ token.key # key
    THEN [NoDict EXCEPT !.err = "InvalidSignature"]
    ELSE IF expired_in = 0 \/ token.old
    THEN [NoDict EXCEPT !.err = "SignatureExpired"]
    ELSE [ok |-> TRUE, name |-> token.name, sid |-> token.sid, err |-> ""]

\* SignatureSerializer(key, expired_in).decode(token): (decoded_dict, err)
decode(key, expired_in, token) ==
    IF token.kind # "signed" \/ token.key # key
    THEN [NoDict EXCEPT !.err = "InvalidSignature"]
    ELSE IF expired_in # 0 /\ token.old
    THEN [NoDict EXCEPT !.err = "SignatureExpired"]
    ELSE [ok |-> TRUE, name |-> token.name, sid |-> token.sid, err |-> ""]

\* decoded_dict.get(name)
dict_get(decoded, name) ==
    IF decoded.ok /\ decoded.name = name THEN decoded.sid ELSE NoId

\* self.serializer.encode({self.session_cookie_name: session_id})
serializer_encode(session_id) == encode(secret_key, session_cookie_name, session_id)

\* self.serializer.decode(signed_session_id)
serializer_decode(token) == decode(secret_key, SESSION_COOKIE_MAX_AGE, token)

\* create_session_cookie signing under a key that is not the configured one
create_session_cookie_other_key(session_id) ==
    encode("other-secret", session_cookie_name, session_id)

\* SessionMiddleware.create_session_cookie: the signed value of the cookie
create_session_cookie(session_id) == serializer_encode(session_id)

\* ------------------------------------------------------------ RedisMemory
RedisAbsent == [kind |-> "absent", env |-> NoneEnvelope, ttl |-> 0]

json_dumps(data, ttl) == [kind |-> "json", env |-> data, ttl |-> ttl]

\* a value under a session key that is not JSON text
RedisCorrupt == [kind |-> "corrupt", env |-> NoneEnvelope, ttl |-> 0]

\* RedisMemory.has
has(mem, key) == mem[key].kind # "absent"

\* json.loads of a stored value: the dict that was dumped, or
\* JSONDecodeError for a value that is not JSON
json_loads(data) ==
    IF data.kind = "json" THEN [raised |-> FALSE, value |-> data.env]
    ELSE [raised |-> TRUE, value |-> NoneEnvelope]

\* get_store without the try/except around json.loads
get_store_outcome_uncaught(mem, session_id) ==
    IF mem[session_id].kind = "absent"
    THEN [raised |-> FALSE, value |-> NoneEnvelope]
    ELSE json_loads(mem[session_id])

\* RedisMemory.get_store, lines 69-76: what it returns or that it raises
get_store_outcome(mem, session_id) ==
    IF mem[session_id].kind = "absent"
    THEN [raised |-> FALSE, value |-> NoneEnvelope]
    ELSE LET parsed == json_loads(mem[session_id])
         IN  IF parsed.raised
             THEN [raised |-> FALSE, value |-> NoneEnvelope]
             ELSE parsed

\* RedisMemory.get_store: the value it returns
get_store(mem, session_id) == get_store_outcome(mem, session_id).value

\* save_store that updates the stored bucket key by key instead of replacing
\* the stored value
save_store_merge(mem, session_id, data, ttl) ==
    IF mem[session_id].kind = "json" /\ ~mem[session_id].env.none /\ ~data.none
    THEN [mem EXCEPT ![session_id] =
            json_dumps(Envelope([k \in Keys |->
                            IF data.store[k] # Missing THEN data.store[k]
                            ELSE mem[session_id].env.store[k]]), ttl)]
    ELSE [mem EXCEPT ![session_id] = json_dumps(data, ttl)]

\* RedisMemory.save_store
save_store(mem, session_id, data, ttl) ==
    [mem EXCEPT ![session_id] = json_dumps(data, ttl)]

\* RedisMemory.clear
clear(mem, session_id) == [mem EXCEPT ![session_id] = RedisAbsent]

\* ----------------------------------------------------- SessionIntegration
\* SessionIntegration.__init__
SessionIntegration(session_id) == [id |-> session_id, store |-> Envelope(EmptyBucket)]

NoSession == [id |-> NoId, store |-> NoneEnvelope]

\* SessionIntegration.__setitem__ on a present envelope
setitem(session, key, value) ==
    [session EXCEPT !.store.store[key] = value]

\* SessionIntegration.__getitem__
getitem(session, key) == session.store.store[key]

\* uuid.uuid4(): an identifier no earlier call returned
uuid4(used) == used + 1

\* SessionMiddleware.create_session
create_session(session_id, cause) ==
    setitem(SessionIntegration(session_id), "__cause__", cause)

\* the stale branch keeping the identifier of the cookie
stale_session_reuse(session_id, new_id) ==
    create_session(session_id, "valid_cookie_but_no_store")

\* dispatch, lines 212-219: the session built when the cookie verifies but
\* the store has no entry for its identifier
stale_session(session_id, new_id) ==
    create_session(new_id, "valid_cookie_but_no_store")

\* dispatch, lines 225-230: the session built from the loaded envelope
loaded_session(session_id, envelope) ==
    setitem([id |-> session_id, store |-> envelope], "__cause__", "success")

\* ---------------------------------------------------------------- response
NoResponse == [status |-> 0, cookies |-> {}]

\* one Set-Cookie header of a response
SetCookie(name, signed, text, del) ==
    [name |-> name, signed |-> signed, text |-> text, del |-> del]

AuthCookie(text) == SetCookie("auth", NoCookie, text, FALSE)

\* a cookie of the application's own
AppCookie == SetCookie("theme", NoCookie, "dark", FALSE)

\* response.delete_cookie(name): appends an expiring Set-Cookie header
delete_cookie(cookies, name) == cookies \cup {SetCookie(name, NoCookie, "", TRUE)}

\* response.headers["Set-Cookie"] = value: replaces every Set-Cookie header
set_cookie_header(cookies, cookie) ==
    {SetCookie(session_cookie_name, cookie, "", FALSE)}

\* the exit step that never issues the prepared cookie
exit_cookies_delete_only(cookies, cookie, session) ==
    IF session.store.none THEN delete_cookie(cookies, session_cookie_name) ELSE cookies

\* the exit step with "needs cookie" taking precedence over a cleared session
exit_cookies_cookie_first(cookies, cookie, session) ==
    IF cookie.kind # "none" THEN set_cookie_header(cookies, cookie)
    ELSE IF session.store.none THEN delete_cookie(cookies, session_cookie_name)
    ELSE cookies

\* dispatch, lines 243-249: the Set-Cookie headers of the returned response
exit_cookies(cookies, cookie, session) ==
    LET c1 == IF cookie.kind # "none" /\ ~session.store.none
              THEN set_cookie_header(cookies, cookie) ELSE cookies
    IN  IF session.store.none THEN delete_cookie(c1, session_cookie_name) ELSE c1

\* the exit step saving only over an entry that is already in the store
exit_memory_existing_only(mem, session) ==
    IF ~session.store.none /\ has(mem, session.id)
    THEN save_store(mem, session.id, session.store, SessionTtl)
    ELSE mem

\* the exit step saving without an expiry: the entry's TTL is not reset
exit_memory_no_ttl(mem, session) ==
    IF ~session.store.none
    THEN save_store(mem, session.id, session.store, 0)
    ELSE mem

\* dispatch, lines 240-241: the store after the exit step
exit_memory(mem, session) ==
    IF ~session.store.none
    THEN save_store(mem, session.id, session.store, SessionTtl)
    ELSE mem

\* --------------------------------------------------------- skip header rule
HeaderNames == {"x-health", "x-internal"}
NoHeader == "ABSENT"
HeaderValues == {NoHeader, "1", "2"}

\* the skip_session_header option: a list of {header_name, header_value}
skip_session_header ==
    << [header_name |-> "x-health", header_value |-> "*"],
       [header_name |-> "x-internal", header_value |-> "1"] >>

\* the option as main.py leaves it (None) and with one pair of each kind
SkipConfigs ==
    {<< >>, skip_session_header,
     << skip_session_header[1] >>, << skip_session_header[2] >>}

\* the header check comparing values only: "*" is one more value
skip_session_header_check_exact(skip_header, headers) ==
    \E i \in 1..Len(skip_header) :
        headers[skip_header[i].header_name] = skip_header[i].header_value

\* SessionMiddleware.skip_session_header_check; skip_header None is << >>
skip_session_header_check(skip_header, headers) ==
    \E i \in 1..Len(skip_header) :
        LET header_value == skip_header[i].header_value
            request_header_value == headers[skip_header[i].header_name]
        IN  \/ header_value = "*" /\ request_header_value # NoHeader
            \/ request_header_value = header_value

\* ------------------------------------------------------------- persistence
\* UserService.get_by_session_token / UserService.logout query:
\* result.unique().one_or_none() over the rows whose token matches
one_or_none(rows) ==
    IF Len(rows) = 0 THEN [raised |-> FALSE, user |-> ""]
    ELSE IF Len(rows) = 1 THEN [raised |-> FALSE, user |-> rows[1]]
    ELSE [raised |-> TRUE, user |-> ""]

\* get_session_user, line 40: session.store.get("user") reads the envelope,
\* whose only key is "store"
envelope_get(envelope, key) ==
    IF key = "store" THEN "<bucket>" ELSE Missing

\* get_session_user: where the subject is resolved from
get_session_user(session, rows) ==
    IF envelope_get(session.store, "user") # Missing
    THEN [src |-> "cache", user |-> envelope_get(session.store, "user"),
          db |-> FALSE, raised |-> FALSE]
    ELSE LET q == one_or_none(rows)
         IN  IF q.raised THEN [src |-> "none", user |-> "", db |-> TRUE, raised |-> TRUE]
             ELSE IF q.user # "" THEN [src |-> "db", user |-> q.user, db |-> TRUE, raised |-> FALSE]
             ELSE [src |-> "none", user |-> "", db |-> TRUE, raised |-> FALSE]

\* ------------------------------------------------------- permission model
PermNames == {"posts:write", "posts:delete", "posts:purge"}
GrantedNames == {"posts:write", "posts:delete"}
Roles == {"editor", "admin"}

\* the argument of can / has_permission / with_access_to: a name or a list
PermName(name) == [list |-> FALSE, name |-> name, names |-> << >>]

PermList(names) == [list |-> TRUE, name |-> "", names |-> names]

\* Python's permission == p.name: a list never equals a string
perm_eq(permission, name) == ~permission.list /\ permission.name = name

\* Role.has_permission (a name is never an int)
Role_has_permission(permissions, permission) ==
    IF permissions = {} THEN FALSE
    ELSE \E p \in permissions : perm_eq(permission, p)

\* has_permission whose role lookup overwrites the direct result
User_has_permission_roles_only(user, role_permissions, permission) ==
    LET direct == IF user.permissions # {}
                  THEN \E p \in user.permissions : perm_eq(permission, p)
                  ELSE FALSE
    IN  IF user.roles # {}
        THEN \E role \in user.roles :
                Role_has_permission(role_permissions[role], permission)
        ELSE direct

\* has_permission asking every role, not any role, for the permission
User_has_permission_all_roles(user, role_permissions, permission) ==
    LET direct == IF user.permissions # {}
                  THEN \E p \in user.permissions : perm_eq(permission, p)
                  ELSE FALSE
    IN  IF user.roles # {}
        THEN direct \/ \A role \in user.roles :
                          Role_has_permission(role_permissions[role], permission)
        ELSE direct

\* User.has_permission
User_has_permission(user, role_permissions, permission) ==
    LET direct == IF user.permissions # {}
                  THEN \E p \in user.permissions : perm_eq(permission, p)
                  ELSE FALSE
    IN  IF user.roles # {}
        THEN direct \/ \E role \in user.roles :
                          Role_has_permission(role_permissions[role], permission)
        ELSE direct

\* can without the superuser shortcut
User_can_no_shortcut(user, role_permissions, permission) ==
    IF ~User_has_permission(user, role_permissions, permission) THEN "forbidden"
    ELSE "ok"

\* User.can: "ok" when it returns None, "forbidden" when it raises
\* RequiresPermission
User_can(user, role_permissions, permission) ==
    IF user.is_superuser THEN "ok"
    ELSE IF ~User_has_permission(user, role_permissions, permission) THEN "forbidden"
    ELSE "ok"

\* the dependency with_access_to(permission) builds, applied to a user
with_access_to(user, role_permissions, permission) ==
    LET each == IF permission.list
                THEN IF \E i \in 1..Len(permission.names) :
                          User_can(user, role_permissions, PermName(permission.names[i])) = "forbidden"
                     THEN "forbidden" ELSE "ok"
                ELSE User_can(user, role_permissions, permission)
    IN  IF each = "forbidden" THEN "forbidden"
        ELSE User_can(user, role_permissions, permission)

\* ------------------------------------------------------------------- state
VARIABLES
    memory,         \* Redis: session identifier -> stored value
    user_sessions,  \* UserSession rows: token -> users of the rows, in order
    req,            \* per request slot: the locals of dispatch and its ghosts
    used,           \* number of identifiers uuid4 has returned
    sent,           \* identifiers whose signed cookie left in a response
    pristine,       \* identifiers saved by a cookie-less request whose handler
                    \* wrote nothing, the store entry untouched since
    started,        \* number of requests started
    limits,         \* the run's bounds: requests in flight, requests started,
                    \* session operations per handler, what clients send
    subject,        \* the user of the permission checks
    roles_table,    \* role name -> permission names of the role
    call,           \* the last permission check: operation, argument, result
    codec,          \* the signer on its own: configuration, token, decoding
    accounts,       \* User rows: user -> is_active and deleted_at set or not
    logged_out,     \* identifiers whose logout ran, no login under them since
    probe           \* the last direct call on RedisMemory and its outcome

mvars == <<memory, user_sessions, req, used, sent, pristine, started, limits,
          accounts, logged_out, probe>>

svars == <<mvars, codec>>

rvars == <<subject, roles_table, call, codec, accounts, probe>>

vars == <<memory, user_sessions, req, used, sent, pristine, started, limits,
          subject, roles_table, call, codec, accounts, logged_out, probe>>

\* the permission the gated route requires
GatedName == "posts:write"

Subjects ==
    [is_superuser : BOOLEAN, permissions : SUBSET GrantedNames, roles : SUBSET Roles]

NoCall == [op |-> "none", permission |-> PermName(""), result |-> ""]

\* the signer's run before it starts
NoCodec ==
    [pc |-> "idle", secret_key |-> "", max_age |-> 0, session_id |-> NoId,
     token |-> NoCookie, verify_key |-> "", decoded |-> NoDict, result |-> NoId]

\* the permission model and the signer's run at rest, while the session
\* machine runs
RbacIdle ==
    /\ subject = [is_superuser |-> FALSE, permissions |-> {}, roles |-> {}]
    /\ roles_table = [role \in Roles |-> {}]
    /\ call = NoCall
    /\ codec = NoCodec

\* a User row as register creates it: is_active, deleted_at not set
ActiveAccount == [is_active |-> TRUE, deleted |-> FALSE]

\* no direct call on RedisMemory was made
NoProbe == [op |-> "none", id |-> NoId, raised |-> FALSE, value |-> NoneEnvelope]

\* a request without the headers the skip rule looks at
NoHeaders == [n \in HeaderNames |-> NoHeader]

IdleReq ==
    [pc |-> "idle", signed_session_id |-> NoCookie, bypass |-> FALSE,
     entry |-> "", session_id |-> NoId, session |-> NoSession,
     headers |-> NoHeaders, attached |-> FALSE, cookie |-> NoCookie,
     response |-> NoResponse, returned |-> NoResponse,
     loaded |-> NoneEnvelope, ops |-> 0, wrote |-> FALSE, cleared |-> FALSE,
     route |-> "", resolved |-> [src |-> "none", user |-> "", db |-> FALSE, raised |-> FALSE],
     raisedIn |-> "", error |-> "", faultAt |-> "", saved |-> FALSE]

\* a probe that carries the wildcard-matched header
HealthCheck == [NoHeaders EXCEPT !["x-health"] = "1"]

\* the sequential run: one request at a time, any client, requests with
\* and without the health-check header, handlers that set no own cookie
SeqLimits ==
    [conc |-> 1, requests |-> MaxRequests, ops |-> MaxOps, strangers |-> TRUE,
     headers |-> {NoHeaders, HealthCheck}, skip |-> skip_session_header,
     cookies |-> {{}}]

\* the store, the rows and the middleware before the first request
SessionStart ==
    /\ memory = [s \in Ids |-> RedisAbsent]
    /\ user_sessions = [s \in Ids |-> << >>]
    /\ req = [r \in Reqs |-> IdleReq]
    /\ used = 0
    /\ sent = {}
    /\ pristine = {}
    /\ started = 0
    /\ accounts = [u \in Users |-> ActiveAccount]
    /\ logged_out = {}
    /\ probe = NoProbe

SessionInit == SessionStart /\ limits = SeqLimits


\* ------------------------------------------------------------ request input
\* what a client can present: nothing, an undecodable value, a cookie this
\* server sent (possibly older than max_age), or one signed with another key
ForgedCookies ==
    {GarbageCookie}
    \cup {SignedCookie(secret_key, s, TRUE) : s \in sent}
    \cup {SignedCookie("other-secret", s, FALSE) : s \in Ids}

\* limits.strangers: whether clients without a valid cookie take part
ClientCookies ==
    {SignedCookie(secret_key, s, FALSE) : s \in sent}
    \cup (IF limits.strangers THEN {NoCookie} \cup ForgedCookies ELSE {})

ClientHeaders == [HeaderNames -> HeaderValues]

Pending == Cardinality({q \in Reqs : req[q].pc = "has"})

\* a dict operation on session.store["store"] while session.store is None
\* raises TypeError
subscript_raises(session) == session.store.none

\* --------------------------------------------------------- dispatch, entry
\* dispatch lines 193-236 up to the first await
Start(r, signed_session_id, headers) ==
    /\ UNCHANGED <<rvars, limits, logged_out>>
    /\ req[r].pc = "idle"
    /\ \A q \in Reqs : q < r => req[q].pc # "idle"
    /\ Cardinality({q \in Reqs : req[q].pc # "idle"}) < limits.conc
    /\ started < limits.requests
    /\ started' = started + 1
    /\ UNCHANGED <<memory, user_sessions, sent, pristine>>
    /\ LET base == [IdleReq EXCEPT !.signed_session_id = signed_session_id,
                                      !.headers = headers]
           decoded == serializer_decode(signed_session_id)
       IN  IF skip_session_header_check(limits.skip, headers)
           THEN /\ req' = [req EXCEPT ![r] =
                        [base EXCEPT !.pc = "handler", !.bypass = TRUE, !.entry = "BYPASS"]]
                /\ used' = used
           ELSE IF signed_session_id.kind = "none"
           THEN /\ used + Pending < NumIds
                /\ used' = used + 1
                /\ LET session == create_session(uuid4(used), "new")
                   IN  req' = [req EXCEPT ![r] =
                        [base EXCEPT !.pc = "handler", !.entry = "NO_COOKIE",
                                     !.session = session, !.attached = TRUE,
                                     !.cookie = create_session_cookie(session.id)]]
           ELSE IF decoded.ok
           THEN /\ used + Pending < NumIds
                /\ used' = used
                /\ req' = [req EXCEPT ![r] =
                        [base EXCEPT !.pc = "has",
                                     !.session_id = dict_get(decoded, session_cookie_name)]]
           ELSE /\ used + Pending < NumIds
                /\ used' = used + 1
                /\ LET session == create_session(uuid4(used), "renew after " \o decoded.err)
                   IN  req' = [req EXCEPT ![r] =
                        [base EXCEPT !.pc = "handler", !.entry = "COOKIE_INVALID",
                                     !.session = session, !.attached = TRUE,
                                     !.cookie = create_session_cookie(session.id)]]

\* dispatch lines 210-227: await self.memory.has(session_id) and the branch
Has(r) ==
    /\ UNCHANGED <<rvars, limits, logged_out>>
    /\ req[r].pc = "has"
    /\ UNCHANGED <<memory, user_sessions, sent, pristine, started>>
    /\ IF ~has(memory, req[r].session_id)
       THEN /\ used' = used + 1
            /\ LET session == stale_session(req[r].session_id, uuid4(used))
               IN  req' = [req EXCEPT ![r].pc = "handler",
                                      ![r].entry = "COOKIE_VALID_NO_STORE",
                                      ![r].session = session,
                                      ![r].attached = TRUE,
                                      ![r].cookie = create_session_cookie(session.id)]
       ELSE /\ used' = used
            /\ req' = [req EXCEPT ![r].pc = "load",
                                  ![r].entry = "COOKIE_VALID_HAS_STORE",
                                  ![r].session = SessionIntegration(req[r].session_id)]

\* dispatch lines 228-230: await session.load(), the cause marker, setattr
Load(r) ==
    /\ UNCHANGED <<rvars, limits, logged_out>>
    /\ req[r].pc = "load"
    /\ UNCHANGED <<memory, user_sessions, used, sent, pristine, started>>
    /\ LET envelope == get_store(memory, req[r].session.id)
           session == [id |-> req[r].session.id, store |-> envelope]
       IN  IF subscript_raises(session)
           THEN req' = [req EXCEPT ![r].pc = "raised", ![r].raisedIn = "entry",
                                   ![r].error = "TypeError",
                                   ![r].session = session]
           ELSE req' = [req EXCEPT ![r].pc = "handler",
                                   ![r].loaded = envelope,
                                   ![r].session = loaded_session(req[r].session.id, envelope),
                                   ![r].attached = TRUE]

\* --------------------------------------------------------------- handlers
InHandler(r) == req[r].pc = "handler" /\ req[r].attached

\* the exception a handler statement raises leaves call_next and dispatch
Raised(r, error) ==
    [req EXCEPT ![r].pc = "raised", ![r].raisedIn = "handler", ![r].error = error]

\* the payload login and get_session_user cache: jsonable_encoder(user.model_dump())
model_dump(user) == user

\* UserService.get_by_email: the row of the email unless it is soft-deleted
\* ("" = None)
get_by_email(accts, email) ==
    IF email \in DOMAIN accts /\ ~accts[email].deleted THEN email ELSE ""

\* UserService.authenticate ("" = None)
authenticate(accts, email, password_ok) ==
    LET user == get_by_email(accts, email)
    IN  IF user = "" THEN ""
        ELSE IF ~password_ok THEN ""
        ELSE IF ~accts[user].is_active THEN ""
        ELSE user

\* the credentials a client can post: a registered or an unknown email, the
\* right or a wrong password
Credentials == [email : Users \cup {"nobody"}, password_ok : BOOLEAN]

\* routes/auth.py login; user is UserService.authenticate's result ("" = None)
Login(r, user) ==
    /\ UNCHANGED <<rvars, limits>>
    /\ InHandler(r) /\ req[r].ops = 0
    /\ UNCHANGED <<memory, used, sent, pristine, started>>
    /\ \E cred \in Credentials : authenticate(accounts, cred.email, cred.password_ok) = user
    /\ IF user = ""
       THEN /\ req' = [req EXCEPT ![r].pc = "exit", ![r].route = "login",
                                  ![r].response = [status |-> 401, cookies |-> {}]]
            /\ UNCHANGED <<user_sessions, logged_out>>
       ELSE /\ Len(user_sessions[req[r].session.id]) < MaxRows
            /\ logged_out' = logged_out \ {req[r].session.id}
            /\ user_sessions' = [user_sessions EXCEPT ![req[r].session.id] = Append(@, user)]
            /\ req' = [req EXCEPT ![r].pc = "exit", ![r].route = "login",
                                  ![r].session = setitem(@, "user", model_dump(user)),
                                  ![r].wrote = TRUE,
                                  ![r].response = [status |-> 200, cookies |-> {AuthCookie("true")}]]

\* get_session_user answering an unresolved subject with InvalidSession (403)
AfterSessionUser_invalid_session(r, route) ==
    LET found == get_session_user(req[r].session, user_sessions[req[r].session.id])
        q == [req[r] EXCEPT !.route = route, !.resolved = found]
    IN  IF found.raised
        THEN [q EXCEPT !.pc = "raised", !.raisedIn = "handler",
                       !.error = "MultipleResultsFound"]
        ELSE IF found.src = "none"
        THEN [q EXCEPT !.pc = "exit",
                       !.response = [status |-> HTTP_403_FORBIDDEN, cookies |-> {}]]
        ELSE IF found.src = "db"
        THEN [q EXCEPT !.session = setitem(@, "user", model_dump(found.user)),
                       !.wrote = TRUE]
        ELSE q

\* the state of a request after the get_session_user dependency ran
AfterSessionUser(r, route) ==
    LET found == get_session_user(req[r].session, user_sessions[req[r].session.id])
        q == [req[r] EXCEPT !.route = route, !.resolved = found]
    IN  IF found.raised
        THEN [q EXCEPT !.pc = "raised", !.raisedIn = "handler",
                       !.error = "MultipleResultsFound"]
        ELSE IF found.src = "none"
        THEN [q EXCEPT !.pc = "exit", !.response = [status |-> 401, cookies |-> {}]]
        ELSE IF found.src = "db"
        THEN [q EXCEPT !.session = setitem(@, "user", model_dump(found.user)),
                       !.wrote = TRUE]
        ELSE q

\* routes/auth.py get_current_user (GET /me)
Me(r) ==
    /\ UNCHANGED <<rvars, limits, logged_out>>
    /\ InHandler(r) /\ req[r].ops = 0
    /\ UNCHANGED <<memory, user_sessions, used, sent, pristine, started>>
    /\ LET q == AfterSessionUser(r, "me")
       IN  IF q.pc = "handler"
           THEN req' = [req EXCEPT ![r] =
                    [q EXCEPT !.pc = "exit", !.response = [status |-> 200, cookies |-> {}]]]
           ELSE req' = [req EXCEPT ![r] = q]

\* a GeneralException reaching the request boundary: the response carries
\* the status code the exception was built with
exception_response(status_code) == [status |-> status_code, cookies |-> {}]

\* a route behind the dependency of with_access_to(name): get_session_user
\* resolves the subject, then user.can decides
Gated(r, name) ==
    /\ UNCHANGED <<rvars, limits, logged_out>>
    /\ InHandler(r) /\ req[r].ops = 0
    /\ UNCHANGED <<memory, user_sessions, used, sent, pristine, started>>
    /\ LET q == AfterSessionUser(r, "gated")
       IN  IF q.pc # "handler"
           THEN req' = [req EXCEPT ![r] = q]
           ELSE IF with_access_to(subject, roles_table, PermName(name)) = "forbidden"
           THEN req' = [req EXCEPT ![r] =
                    [q EXCEPT !.pc = "exit",
                              !.response = exception_response(HTTP_403_FORBIDDEN)]]
           ELSE req' = [req EXCEPT ![r] =
                    [q EXCEPT !.pc = "exit", !.response = [status |-> 200, cookies |-> {}]]]

\* UserService.logout: delete the row one_or_none returns
delete_user_session(rows) == IF Len(rows) = 1 THEN << >> ELSE rows

\* a logout that only flips the client's "auth" cookie: the row and the
\* store entry stay
Logout_cookie_only(r) ==
    /\ UNCHANGED <<rvars, limits>>
    /\ InHandler(r) /\ req[r].ops = 0
    /\ UNCHANGED <<memory, user_sessions, pristine, used, sent, started>>
    /\ LET q == AfterSessionUser(r, "logout")
       IN  IF q.pc # "handler"
           THEN /\ req' = [req EXCEPT ![r] = q]
                /\ UNCHANGED logged_out
           ELSE /\ logged_out' = logged_out \cup {req[r].session.id}
                /\ req' = [req EXCEPT ![r] =
                        [q EXCEPT !.pc = "exit",
                                  !.response = [status |-> 200, cookies |-> {AuthCookie("false")}]]]

\* routes/auth.py logout
Logout(r) ==
    /\ UNCHANGED <<rvars, limits>>
    /\ InHandler(r) /\ req[r].ops = 0
    /\ UNCHANGED <<used, sent, started>>
    /\ LET q == AfterSessionUser(r, "logout")
           id == req[r].session.id
       IN  IF q.pc # "handler"
           THEN /\ req' = [req EXCEPT ![r] = q]
                /\ UNCHANGED <<memory, user_sessions, pristine, logged_out>>
           ELSE IF one_or_none(user_sessions[id]).raised
           THEN /\ req' = [req EXCEPT ![r] =
                        [q EXCEPT !.pc = "raised", !.raisedIn = "handler",
                                  !.error = "MultipleResultsFound"]]
                /\ UNCHANGED <<memory, user_sessions, pristine, logged_out>>
           ELSE /\ user_sessions' = [user_sessions EXCEPT ![id] = delete_user_session(@)]
                /\ memory' = clear(memory, id)
                /\ pristine' = pristine \ {id}
                /\ logged_out' = logged_out \cup {id}
                /\ req' = [req EXCEPT ![r] =
                        [q EXCEPT !.pc = "exit", !.session.store = NoneEnvelope,
                                  !.cleared = TRUE,
                                  !.response = [status |-> 200, cookies |-> {AuthCookie("false")}]]]

\* a handler statement session[key] = value
AppSet(r, key, value) ==
    /\ UNCHANGED <<rvars, limits, logged_out>>
    /\ InHandler(r) /\ req[r].ops < limits.ops
    /\ UNCHANGED <<memory, user_sessions, used, sent, pristine, started>>
    /\ IF subscript_raises(req[r].session)
       THEN req' = Raised(r, "TypeError")
       ELSE req' = [req EXCEPT ![r].session = setitem(@, key, value),
                               ![r].route = "app",
                               ![r].ops = @ + 1, ![r].wrote = TRUE]

\* a handler statement del session[key]
AppDel(r, key) ==
    /\ UNCHANGED <<rvars, limits, logged_out>>
    /\ InHandler(r) /\ req[r].ops < limits.ops
    /\ UNCHANGED <<memory, user_sessions, used, sent, pristine, started>>
    /\ IF subscript_raises(req[r].session)
       THEN req' = Raised(r, "TypeError")
       ELSE IF getitem(req[r].session, key) = Missing
       THEN req' = Raised(r, "KeyError")
       ELSE req' = [req EXCEPT ![r].session = setitem(@, key, Missing),
                               ![r].route = "app",
                               ![r].ops = @ + 1, ![r].wrote = TRUE]

\* a handler statement await session.clear()
AppClear(r) ==
    /\ UNCHANGED <<rvars, limits, logged_out>>
    /\ InHandler(r) /\ req[r].ops < limits.ops
    /\ UNCHANGED <<user_sessions, used, sent, started>>
    /\ memory' = clear(memory, req[r].session.id)
    /\ pristine' = pristine \ {req[r].session.id}
    /\ req' = [req EXCEPT ![r].session.store = NoneEnvelope,
                          ![r].route = "app",
                          ![r].ops = @ + 1, ![r].cleared = TRUE]

\* the handler returns a response, with the cookies it set: call_next
\* returns; a bypassed dispatch returns that response as it is (line 195)
AppReturn(r, cookies) ==
    /\ UNCHANGED <<rvars, limits, logged_out>>
    /\ req[r].pc = "handler"
    /\ UNCHANGED <<memory, user_sessions, used, sent, pristine, started>>
    /\ req' = [req EXCEPT ![r].pc = IF req[r].bypass THEN "done" ELSE "exit",
                          ![r].route = "app",
                          ![r].response = [status |-> 200, cookies |-> cookies],
                          ![r].returned = [status |-> 200, cookies |-> cookies]]

\* the handler raises an unhandled exception or the request is cancelled:
\* call_next raises inside dispatch, which has no try/finally
HandlerRaise(r) ==
    /\ UNCHANGED <<rvars, limits, logged_out>>
    /\ req[r].pc = "handler"
    /\ UNCHANGED <<memory, user_sessions, used, sent, pristine, started>>
    /\ req' = Raised(r, "Exception")

\* ---------------------------------------------------------- dispatch, exit
SignedIds(cookies) == {c.signed.sid : c \in {d \in cookies : d.signed.kind = "signed"}}

\* dispatch lines 240-251
Exit(r) ==
    /\ UNCHANGED <<rvars, limits, logged_out>>
    /\ req[r].pc = "exit"
    /\ UNCHANGED <<user_sessions, used, started>>
    /\ LET session == req[r].session
           cookies == exit_cookies(req[r].response.cookies, req[r].cookie, session)
           saves == exit_memory(memory, session) # memory \/ ~session.store.none
       IN  /\ memory' = exit_memory(memory, session)
           /\ sent' = sent \cup SignedIds(cookies)
           /\ pristine' =
                IF req[r].entry = "NO_COOKIE" /\ ~req[r].wrote /\ ~req[r].cleared
                   /\ session.id \in SignedIds(cookies)
                THEN pristine \cup {session.id}
                ELSE IF saves THEN pristine \ {session.id} ELSE pristine
           /\ req' = [req EXCEPT ![r].pc = "done",
                                 ![r].saved = ~session.store.none,
                                 ![r].response.cookies = cookies]

\* the slot is free for the next request
Finish(r) ==
    /\ UNCHANGED <<rvars, limits, logged_out>>
    /\ req[r].pc \in {"done", "raised"}
    /\ UNCHANGED <<memory, user_sessions, used, sent, pristine, started>>
    /\ req' = [req EXCEPT ![r] = IdleReq]

\* Redis evicts an entry whose TTL (ex=ttl) ran out
Expire(s) ==
    /\ UNCHANGED <<rvars, limits, logged_out>>
    /\ memory[s].kind # "absent"
    /\ UNCHANGED <<user_sessions, req, used, sent, started>>
    /\ memory' = [memory EXCEPT ![s] = RedisAbsent]
    /\ pristine' = pristine \ {s}

\* the app of main.py registers no exception handler: an exception that
\* leaves dispatch is answered by the server's default error response
server_error_response == [status |-> 500, cookies |-> {}]

\* a call on the Redis client raises (connection lost, timeout): in
\* memory.has (line 210), in session.load (228), in session.save (241) or in
\* the session.clear of a handler; no caller catches it
StoreFault(r) ==
    /\ UNCHANGED <<rvars, limits, logged_out>>
    /\ \/ req[r].pc \in {"has", "load"}
       \/ req[r].pc = "exit" /\ ~req[r].session.store.none
       \/ InHandler(r) /\ req[r].ops < limits.ops
    /\ UNCHANGED <<memory, user_sessions, used, sent, pristine, started>>
    /\ req' = [req EXCEPT ![r].pc = "raised", ![r].raisedIn = "store",
                          ![r].error = "ConnectionError",
                          ![r].faultAt = req[r].pc,
                          ![r].response = server_error_response]

\* another writer overwrites a session's entry with a value that is not JSON
Corrupt(s) ==
    /\ UNCHANGED <<rvars, limits, logged_out>>
    /\ memory[s].kind = "json"
    /\ UNCHANGED <<user_sessions, req, used, sent, started>>
    /\ memory' = [memory EXCEPT ![s] = RedisCorrupt]
    /\ pristine' = pristine \ {s}


Next ==
    \/ \E r \in Reqs, c \in ClientCookies, h \in limits.headers : Start(r, c, h)
    \/ \E r \in Reqs : Has(r)
    \/ \E r \in Reqs : Load(r)
    \/ \E r \in Reqs, u \in Users \cup {""} : Login(r, u)
    \/ \E r \in Reqs : Me(r)
    \/ \E r \in Reqs : Logout(r)
    \/ \E r \in Reqs : Gated(r, GatedName)
    \/ \E r \in Reqs, v \in AppValues : AppSet(r, "x", v)
    \/ \E r \in Reqs : AppDel(r, "x")
    \/ \E r \in Reqs : AppClear(r)
    \/ \E r \in Reqs, cookies \in limits.cookies : AppReturn(r, cookies)
    \/ \E r \in Reqs : HandlerRaise(r)
    \/ \E r \in Reqs : Exit(r)
    \/ \E r \in Reqs : Finish(r)
    \/ \E s \in Ids : Expire(s)


Init == SessionInit /\ RbacIdle

Spec == Init /\ [][Next]_vars

\* the sequential machine with a store that can fail and entries another
\* writer can garble
FaultNext ==
    \/ Next
    \/ \E r \in Reqs : StoreFault(r)
    \/ \E s \in Ids : Corrupt(s)

FaultInit ==
    /\ SessionStart
    /\ limits = [SeqLimits EXCEPT !.ops = FewOps, !.headers = {NoHeaders}]
    /\ RbacIdle

SpecFault == FaultInit /\ [][FaultNext]_vars

\* the state a first cookie-less visit leaves: its session saved, its
\* cookie sent
SessionVisited ==
    /\ memory = [s \in Ids |-> IF s = uuid4(0)
                               THEN json_dumps(create_session(s, "new").store, SessionTtl)
                               ELSE RedisAbsent]
    /\ user_sessions = [s \in Ids |-> << >>]
    /\ req = [r \in Reqs |-> IdleReq]
    /\ used = 1
    /\ sent = {uuid4(0)}
    /\ pristine = {uuid4(0)}
    /\ started = 0
    /\ accounts = [u \in Users |-> ActiveAccount]
    /\ logged_out = {}
    /\ probe = NoProbe

\* the state a successful login on a first cookie-less visit leaves: the
\* session with the user payload saved, its row inserted, its cookie sent
SessionLoggedIn ==
    /\ memory = [s \in Ids |->
                    IF s = uuid4(0)
                    THEN json_dumps(setitem(create_session(s, "new"), "user",
                                            model_dump("u1")).store, SessionTtl)
                    ELSE RedisAbsent]
    /\ user_sessions = [s \in Ids |-> IF s = uuid4(0) THEN <<"u1">> ELSE << >>]
    /\ req = [r \in Reqs |-> IdleReq]
    /\ used = 1
    /\ sent = {uuid4(0)}
    /\ pristine = {}
    /\ started = 0
    /\ accounts = [u \in Users |-> ActiveAccount]
    /\ logged_out = {}
    /\ probe = NoProbe

\* the sequential machine after a login, returning clients only
LoggedInInit ==
    /\ SessionLoggedIn
    /\ limits = [SeqLimits EXCEPT !.ops = FewOps, !.strangers = FALSE,
                                  !.headers = {NoHeaders}]
    /\ RbacIdle

SpecLogout == LoggedInInit /\ [][Next]_vars

\* UserService.update with is_active = False
Deactivate(u) ==
    /\ accounts[u].is_active
    /\ accounts' = [accounts EXCEPT ![u].is_active = FALSE]
    /\ UNCHANGED <<memory, user_sessions, req, used, sent, pristine, started, limits,
                   logged_out, probe, subject, roles_table, call, codec>>

\* UserService.delete, soft: deleted_at is set, the row and its sessions stay
SoftDelete(u) ==
    /\ ~accounts[u].deleted
    /\ accounts' = [accounts EXCEPT ![u].deleted = TRUE]
    /\ UNCHANGED <<memory, user_sessions, req, used, sent, pristine, started, limits,
                   logged_out, probe, subject, roles_table, call, codec>>

\* the sequential machine with users being deactivated or soft-deleted
AccountNext ==
    \/ Next
    \/ \E u \in Users : Deactivate(u)
    \/ \E u \in Users : SoftDelete(u)

SpecAccount == LoggedInInit /\ [][AccountNext]_vars

\* ------------------------------------------------ RedisMemory, as a run
\* the envelopes a session can hold: the bucket of a new or loaded session,
\* with or without an application value
StoredEnvelopes ==
    {Envelope([EmptyBucket EXCEPT !["__cause__"] = cause, !["x"] = x]) :
        cause \in {"new", "success"}, x \in AppValues \cup {Missing}}

StoreInit ==
    /\ SessionStart
    /\ limits = SeqLimits
    /\ RbacIdle

\* await memory.get_store(session_id)
StoreGet(session_id) ==
    /\ LET outcome == get_store_outcome(memory, session_id)
       IN  probe' = [op |-> "get_store", id |-> session_id,
                     raised |-> outcome.raised, value |-> outcome.value]
    /\ UNCHANGED <<memory, user_sessions, req, used, sent, pristine, started, limits,
                   accounts, logged_out, subject, roles_table, call, codec>>

\* await memory.save_store(session_id, data, ttl) of a session's envelope
StoreSave(session_id, data) ==
    /\ memory' = save_store(memory, session_id, data, SessionTtl)
    /\ probe' = [op |-> "save_store", id |-> session_id,
                 raised |-> FALSE, value |-> NoneEnvelope]
    /\ UNCHANGED <<user_sessions, req, used, sent, pristine, started, limits,
                   accounts, logged_out, subject, roles_table, call, codec>>

\* await memory.clear(session_id)
StoreClear(session_id) ==
    /\ memory' = clear(memory, session_id)
    /\ probe' = [op |-> "clear", id |-> session_id,
                 raised |-> FALSE, value |-> NoneEnvelope]
    /\ UNCHANGED <<user_sessions, req, used, sent, pristine, started, limits,
                   accounts, logged_out, subject, roles_table, call, codec>>

\* another writer puts a value that is not JSON under the key
StoreGarble(session_id) ==
    /\ memory' = [memory EXCEPT ![session_id] = RedisCorrupt]
    /\ probe' = NoProbe
    /\ UNCHANGED <<user_sessions, req, used, sent, pristine, started, limits,
                   accounts, logged_out, subject, roles_table, call, codec>>

StoreNext ==
    \/ \E id \in Ids : StoreGet(id)
    \/ \E id \in Ids, data \in StoredEnvelopes : StoreSave(id, data)
    \/ \E id \in Ids : StoreClear(id)
    \/ \E id \in Ids : StoreGarble(id)

SpecStore == StoreInit /\ [][StoreNext]_vars

\* the same machine with NumReqs requests of returning clients in flight at
\* once, after a first visit
ConcInit ==
    /\ SessionVisited
    /\ limits = [SeqLimits EXCEPT !.conc = NumReqs, !.requests = MaxConcRequests,
                                  !.ops = FewOps, !.strangers = FALSE,
                                  !.headers = {NoHeaders}]
    /\ RbacIdle

\* the steps of contending requests: login and the handlers' session
\* operations, within the TTL of the entries
ConcNext ==
    \/ \E r \in Reqs, c \in ClientCookies, h \in limits.headers : Start(r, c, h)
    \/ \E r \in Reqs : Has(r)
    \/ \E r \in Reqs : Load(r)
    \/ \E r \in Reqs, u \in Users \cup {""} : Login(r, u)
    \/ \E r \in Reqs, v \in AppValues : AppSet(r, "x", v)
    \/ \E r \in Reqs : AppDel(r, "x")
    \/ \E r \in Reqs : AppClear(r)
    \/ \E r \in Reqs, cookies \in limits.cookies : AppReturn(r, cookies)
    \/ \E r \in Reqs : HandlerRaise(r)
    \/ \E r \in Reqs : Exit(r)
    \/ \E r \in Reqs : Finish(r)

SpecConc == ConcInit /\ [][ConcNext]_vars

\* the sequential machine, the user of the rows holding the permission of
\* the gated route or not
GateInit ==
    /\ SessionInit
    /\ subject \in {u \in Subjects :
                        /\ ~u.is_superuser /\ u.roles = {}
                        /\ u.permissions \subseteq {GatedName}}
    /\ roles_table = [role \in Roles |-> {}]
    /\ call = NoCall
    /\ codec = NoCodec

SpecGate == GateInit /\ [][Next]_vars

\* the sequential machine after a first visit, under each
\* skip_session_header option, requests with every combination of the
\* headers, handlers that set a cookie or not
SkipInit ==
    /\ SessionVisited
    /\ limits \in {[SeqLimits EXCEPT !.requests = MaxSkipRequests,
                                      !.ops = FewOps, !.strangers = FALSE,
                                      !.headers = ClientHeaders,
                                      !.skip = skip_header,
                                      !.cookies = {{}, {AppCookie}}] :
                     skip_header \in SkipConfigs}
    /\ RbacIdle

SpecSkip == SkipInit /\ [][Next]_vars

\* --------------------------------------------- permission checks, as a run
RbacInit ==
    /\ SessionInit
    /\ subject \in Subjects
    /\ roles_table \in [Roles -> SUBSET GrantedNames]
    /\ call = NoCall
    /\ codec = NoCodec

PermLists == {<<p1, p2>> : p1 \in PermNames, p2 \in PermNames}

\* user.has_permission(name)
CallHasPermission(name) ==
    /\ UNCHANGED svars
    /\ UNCHANGED <<subject, roles_table>>
    /\ call' = [op |-> "has_permission", permission |-> PermName(name),
                result |-> IF User_has_permission(subject, roles_table, PermName(name))
                           THEN "true" ELSE "false"]

\* user.can(name)
CallCan(name) ==
    /\ UNCHANGED svars
    /\ UNCHANGED <<subject, roles_table>>
    /\ call' = [op |-> "can", permission |-> PermName(name),
                result |-> User_can(subject, roles_table, PermName(name))]

\* the dependency of with_access_to(permission), permission a name or a list
CallWithAccessTo(permission) ==
    /\ UNCHANGED svars
    /\ UNCHANGED <<subject, roles_table>>
    /\ call' = [op |-> "with_access_to", permission |-> permission,
                result |-> with_access_to(subject, roles_table, permission)]

\* UserService.add_permission: a direct permission is added
AddPermission(name) ==
    /\ name \notin subject.permissions
    /\ UNCHANGED svars
    /\ UNCHANGED roles_table
    /\ subject' = [subject EXCEPT !.permissions = @ \cup {name}]
    /\ call' = [op |-> "add_permission", permission |-> PermName(name), result |-> ""]

\* UserService.add_role: a role is added
AddRole(role) ==
    /\ role \notin subject.roles
    /\ UNCHANGED svars
    /\ UNCHANGED roles_table
    /\ subject' = [subject EXCEPT !.roles = @ \cup {role}]
    /\ call' = [op |-> "add_role", permission |-> PermName(""), result |-> role]

\* a permission is added to a role
AddRolePermission(role, name) ==
    /\ name \notin roles_table[role]
    /\ UNCHANGED svars
    /\ UNCHANGED subject
    /\ roles_table' = [roles_table EXCEPT ![role] = @ \cup {name}]
    /\ call' = [op |-> "add_role_permission", permission |-> PermName(name),
                result |-> role]

RbacNext ==
    \/ \E name \in PermNames : CallHasPermission(name)
    \/ \E name \in PermNames : CallCan(name)
    \/ \E name \in PermNames : CallWithAccessTo(PermName(name))
    \/ \E names \in PermLists : CallWithAccessTo(PermList(names))
    \/ \E name \in GrantedNames : AddPermission(name)
    \/ \E role \in Roles : AddRole(role)
    \/ \E role \in Roles, name \in GrantedNames : AddRolePermission(role, name)

SpecRbac == RbacInit /\ [][RbacNext]_vars

\* ------------------------------------------------- the signer, as a run
\* a middleware constructed with a secret and a max_age signs an identifier;
\* the value ages or is altered on the client; a middleware decodes it
CodecInit ==
    /\ SessionInit
    /\ subject = [is_superuser |-> FALSE, permissions |-> {}, roles |-> {}]
    /\ roles_table = [role \in Roles |-> {}]
    /\ call = NoCall
    /\ codec \in {[NoCodec EXCEPT !.pc = "start", !.secret_key = k, !.max_age = a,
                                   !.session_id = id] :
                    k \in SecretKeys, a \in {0, SESSION_COOKIE_MAX_AGE}, id \in Ids}

\* create_session_cookie of a middleware built with codec.secret_key
CodecSign ==
    /\ UNCHANGED <<mvars, subject, roles_table, call>>
    /\ codec.pc = "start"
    /\ codec' = [codec EXCEPT !.pc = "signed",
                               !.token = encode(codec.secret_key, session_cookie_name,
                                                codec.session_id)]

\* more than SESSION_COOKIE_MAX_AGE seconds pass
CodecAge ==
    /\ UNCHANGED <<mvars, subject, roles_table, call>>
    /\ codec.pc = "signed" /\ codec.token.kind = "signed" /\ ~codec.token.old
    /\ codec' = [codec EXCEPT !.token.old = TRUE]

\* the client alters the value: other bytes no key signed, or no signed value
\* at all
CodecTamper(token) ==
    /\ UNCHANGED <<mvars, subject, roles_table, call>>
    /\ codec.pc = "signed" /\ codec.token.kind = "signed" /\ codec.token.key # ""
    /\ codec' = [codec EXCEPT !.token = token]

\* dispatch lines 205-209 of a middleware built with key and codec.max_age
CodecVerify(key) ==
    /\ UNCHANGED <<mvars, subject, roles_table, call>>
    /\ codec.pc = "signed"
    /\ LET decoded == decode(key, codec.max_age, codec.token)
       IN  codec' = [codec EXCEPT !.pc = "verified", !.verify_key = key,
                                  !.decoded = decoded,
                                  !.result = dict_get(decoded, session_cookie_name)]

CodecNext ==
    \/ CodecSign
    \/ CodecAge
    \/ \E token \in {GarbageCookie} \cup {SignedCookie("", id, FALSE) : id \in Ids} :
            CodecTamper(token)
    \/ \E key \in SecretKeys : CodecVerify(key)

SpecCookie == CodecInit /\ [][CodecNext]_vars


\* ------------------------------------------------------------------ claims
\* the middleware just attached the session: the handler has not acted yet
JustAttached(r) ==
    /\ req[r].pc = "handler" /\ req[r].attached
    /\ req[r].ops = 0 /\ ~req[r].wrote /\ ~req[r].cleared

\* the identifier the request's cookie decodes to (NoId when it does not)
CookieId(r) == dict_get(serializer_decode(req[r].signed_session_id), session_cookie_name)

\* the Set-Cookie headers of a response that carry a signed identifier
SignedSetCookies(response) == {c \in response.cookies : c.signed.kind = "signed"}

\* the Set-Cookie headers of a response that delete the session cookie
Deletions(response) ==
    {c \in response.cookies : c.name = session_cookie_name /\ c.del}

\* C1: when the existence check of a request whose cookie verifies finds no
\* store entry, dispatch does not raise, attaches a session whose identifier
\* was never generated before and differs from the cookie's, and the bucket
\* the handler gets holds no application data.
C1_Staleness ==
    [][\A r \in Reqs :
        (/\ req[r].pc = "has"
         /\ serializer_decode(req[r].signed_session_id).ok
         /\ memory[req[r].session_id].kind = "absent"
         /\ req'[r] # req[r])
        => /\ req'[r].pc = "handler"
           /\ req'[r].attached
           /\ req'[r].session.id # CookieId(r)
           /\ req'[r].session.id \notin 1..used
           /\ req'[r].session.id \notin sent
           /\ ~req'[r].session.store.none
           /\ \A k \in Keys \ {"__cause__"} : req'[r].session.store.store[k] = Missing
           /\ memory' = memory]_vars

C1_Witness ==
    \E r \in Reqs :
        /\ req[r].entry = "COOKIE_VALID_NO_STORE"
        /\ JustAttached(r)
        /\ serializer_decode(req[r].signed_session_id).ok

\* C2: the exit step of a request whose handler called clear() puts a
\* deletion of the session cookie on the response and no Set-Cookie with a
\* signed identifier, also when a new cookie had been prepared on entry, and
\* it writes nothing to the store.
C2_ClearWins ==
    [][\A r \in Reqs :
        (req[r].pc = "exit" /\ req[r].cleared /\ req'[r].pc = "done")
        => /\ Deletions(req'[r].response) # {}
           /\ SignedSetCookies(req'[r].response) = {}
           /\ memory' = memory]_vars

C2_Witness ==
    \E r \in Reqs :
        /\ req[r].pc = "done" /\ req[r].cleared
        /\ req[r].cookie.kind = "signed"
        /\ Deletions(req[r].response) # {}

\* C3: a request whose handler raised (or that was cancelled) with a live
\* session has had its exit step run: the session was saved.
C3_ExitAfterFailure ==
    \A r \in Reqs :
        (/\ req[r].pc = "raised" /\ req[r].raisedIn = "handler"
         /\ ~req[r].bypass /\ ~req[r].session.store.none)
        => req[r].saved

\* C4: a request that loaded a session whose bucket holds a cached user
\* resolves the subject from that payload without a persistence call.
C4_CachedSubject ==
    \A r \in Reqs :
        (/\ req[r].route \in {"me", "logout"}
         /\ req[r].entry = "COOKIE_VALID_HAS_STORE"
         /\ req[r].loaded.store["user"] # Missing)
        => /\ ~req[r].resolved.db
           /\ req[r].resolved.src = "cache"
           /\ req[r].resolved.user = req[r].loaded.store["user"]

\* C5: has_permission answers true for a superuser, whatever the name.
C5_SuperuserBypass ==
    (call.op = "has_permission" /\ subject.is_superuser) => call.result = "true"

\* C6: the dependency of with_access_to([p1, p2]) succeeds exactly when
\* has_permission holds for p1 and for p2.
C6_AndSemantics ==
    (call.op = "with_access_to" /\ call.permission.list)
    => (call.result = "ok"
        <=> \A i \in 1..Len(call.permission.names) :
                User_has_permission(subject, roles_table,
                                    PermName(call.permission.names[i])))

\* C7: the bucket of the session attached after a load is the bucket the
\* store holds for the identifier, that is, the one the last save wrote.
C7_Continuity ==
    [][\A r \in Reqs :
        (req[r].pc = "load" /\ req'[r].pc = "handler")
        => /\ memory[req[r].session.id].kind = "json"
           /\ req'[r].session.store.store = memory[req[r].session.id].env.store]_vars

\* C8: a request presenting the cookie a cookie-less request was answered
\* with, no handler write and no store mutation in between, is attached the
\* same identifier with an empty bucket.
C8_ScenarioA ==
    \A r \in Reqs :
        (/\ JustAttached(r)
         /\ req[r].entry = "COOKIE_VALID_HAS_STORE"
         /\ CookieId(r) \in pristine)
        => /\ req[r].session.id = CookieId(r)
           /\ req[r].session.store.store = EmptyBucket

\* C9: a request without session cookie that is not bypassed is attached,
\* before the handler runs, a session with a newly generated identifier and
\* no application data; unless the session was cleared, the response
\* carries a Set-Cookie whose value decodes to that identifier.
C9_NoCookie ==
    [][\A r \in Reqs :
        /\ (/\ req[r].pc = "idle" /\ req'[r].pc # "idle"
            /\ req'[r].signed_session_id.kind = "none" /\ ~req'[r].bypass)
           => /\ req'[r].pc = "handler"
              /\ req'[r].attached
              /\ req'[r].session.id \notin 1..used
              /\ req'[r].session.id \in Ids
              /\ ~req'[r].session.store.none
              /\ \A k \in Keys \ {"__cause__"} : req'[r].session.store.store[k] = Missing
        /\ (/\ req'[r].pc = "done" /\ ~req'[r].bypass
            /\ req'[r].signed_session_id.kind = "none" /\ ~req'[r].cleared)
           => \E c \in req'[r].response.cookies :
                /\ c.name = session_cookie_name /\ ~c.del
                /\ serializer_decode(c.signed).ok
                /\ serializer_decode(c.signed).sid = req'[r].session.id]_vars

C9_Witness ==
    \E r \in Reqs :
        /\ req[r].pc = "done" /\ req[r].entry = "NO_COOKIE" /\ ~req[r].cleared
        /\ SignedSetCookies(req[r].response) # {}

\* C10: a request whose cookie verifies and whose store entry exists when it
\* is loaded is attached a session with the cookie's identifier and the
\* envelope read from the store, and unless the session was cleared its
\* response carries no Set-Cookie for the session cookie.
C10_HasStore ==
    [][\A r \in Reqs :
        /\ (/\ req[r].pc = "load" /\ req'[r] # req[r]
            /\ memory[req[r].session.id].kind = "json")
           => /\ req'[r].pc = "handler"
              /\ req'[r].attached
              /\ req'[r].session.id = CookieId(r)
              /\ req'[r].session.store = get_store(memory, CookieId(r))
        /\ (/\ req'[r].pc = "done" /\ req'[r].entry = "COOKIE_VALID_HAS_STORE"
            /\ ~req'[r].cleared)
           => \A c \in req'[r].response.cookies : c.name # session_cookie_name]_vars

\* the request's cookie is present and does not verify: it is not a signed
\* value, or is signed under another key, or is older than max_age
Unverified(c) ==
    \/ c.kind = "garbage"
    \/ c.kind = "signed" /\ (c.key # secret_key \/ c.old)

\* C11: when a request that is not bypassed presents a cookie that fails
\* verification (tampered, expired or malformed), dispatch raises nothing,
\* touches no store entry, attaches a session with a newly generated
\* identifier, prepares the cookie for that identifier and hands the request
\* to the handler.
C11_CookieInvalid ==
    [][\A r \in Reqs :
        (/\ req[r].pc = "idle" /\ req'[r].pc # "idle" /\ ~req'[r].bypass
         /\ Unverified(req'[r].signed_session_id))
        => /\ req'[r].pc = "handler"
           /\ req'[r].raisedIn = ""
           /\ req'[r].attached
           /\ req'[r].session.id \in Ids \ (1..used)
           /\ ~req'[r].session.store.none
           /\ req'[r].cookie = encode(secret_key, session_cookie_name, req'[r].session.id)
           /\ memory' = memory]_vars

C11_Witness ==
    \E r \in Reqs :
        /\ req[r].pc = "done" /\ req[r].entry = "COOKIE_INVALID"
        /\ req[r].signed_session_id.kind = "signed"
        /\ req[r].signed_session_id.old
        /\ req[r].response.status = 200
        /\ SignedSetCookies(req[r].response) # {}

\* C12: the exit step of a request that is not bypassed, whose handler
\* returned and whose envelope is not None, replaces the store entry under
\* the session's identifier by the current envelope with a TTL of 15 minutes
\* and changes no other entry, whatever the entry state; no other step of a
\* request writes an envelope to the store, so each such request saves once.
C12_SaveOnExit ==
    [][/\ \A r \in Reqs :
            (/\ req[r].pc = "exit" /\ req'[r].pc = "done"
             /\ ~req[r].bypass /\ ~req[r].session.store.none)
            => /\ req[r].entry \in {"NO_COOKIE", "COOKIE_INVALID", "COOKIE_VALID_NO_STORE",
                                   "COOKIE_VALID_HAS_STORE"}
               /\ ~req[r].saved /\ req'[r].saved
               /\ memory' = [memory EXCEPT ![req[r].session.id] =
                                [kind |-> "json", env |-> req[r].session.store,
                                 ttl |-> 15 * 60]]
       /\ \A s \in Ids :
            (memory'[s] # memory[s] /\ memory'[s].kind = "json")
            => \E r \in Reqs :
                    /\ req[r].pc = "exit" /\ req'[r].pc = "done"
                    /\ req[r].session.id = s]_vars

C12_Witness ==
    \E r \in Reqs :
        /\ req[r].pc = "done" /\ req[r].entry = "COOKIE_VALID_HAS_STORE"
        /\ req[r].wrote /\ req[r].saved
        /\ memory[req[r].session.id].env = req[r].session.store
        /\ memory[req[r].session.id].env # req[r].loaded
        /\ memory[req[r].session.id].ttl = SessionTtl

\* C13, as stated: in every reachable state the store holds a record for an
\* identifier exactly when this server issued a signed cookie for it.
C13_RecordIffCookie ==
    \A s \in Ids : has(memory, s) <=> s \in sent

\* C13, amended: every record of the store is under an identifier for which
\* this server issued a signed cookie (the converse fails: the record of an
\* issued cookie goes away on TTL expiry or clear()), and the existence
\* check of a verified cookie that finds no record makes dispatch attach a
\* session under a new identifier and prepare that identifier's cookie.
C13_RecordHasCookie ==
    [][/\ \A s \in Ids : has(memory', s) => s \in sent'
       /\ \A r \in Reqs :
            (/\ req[r].pc = "has" /\ req'[r] # req[r]
             /\ ~has(memory, req[r].session_id))
            => /\ req'[r].entry = "COOKIE_VALID_NO_STORE"
               /\ req'[r].session.id \notin sent \cup {req[r].session_id}
               /\ req'[r].cookie = serializer_encode(req'[r].session.id)
               /\ ~has(memory', req'[r].session.id)]_vars

C13_Witness ==
    \E r \in Reqs :
        /\ req[r].pc = "done" /\ req[r].entry = "COOKIE_VALID_NO_STORE"
        /\ CookieId(r) \in sent /\ ~has(memory, CookieId(r))
        /\ has(memory, req[r].session.id) /\ req[r].session.id \in sent

\* C14: requests that hold the same verified cookie run their handlers on
\* their own copies of the envelope, and the exit step of each replaces the
\* store entry by the whole envelope of that request whatever the entry held
\* and whoever else is in flight, without touching the other requests: the
\* entry equals the envelope of the request that saved last, and a key only
\* an earlier saver wrote is gone.
C14_LastWriterWins ==
    [][\A r \in Reqs :
        (/\ req[r].pc = "exit" /\ req'[r].pc = "done"
         /\ ~req[r].session.store.none)
        => /\ memory'[req[r].session.id].kind = "json"
           /\ memory'[req[r].session.id].env = req[r].session.store
           /\ \A q \in Reqs \ {r} : req'[q] = req[q]]_vars

\* two requests loaded the same session, one wrote "x" and saved, the other
\* wrote "user" and saved last: "x" is not in the store
C14_Witness ==
    \E r, q \in Reqs :
        /\ r # q
        /\ req[r].pc = "done" /\ req[q].pc = "done"
        /\ req[r].entry = "COOKIE_VALID_HAS_STORE" /\ req[q].entry = "COOKIE_VALID_HAS_STORE"
        /\ req[r].session.id = req[q].session.id
        /\ req[r].saved /\ req[q].saved
        /\ req[r].loaded = req[q].loaded
        /\ req[q].session.store.store["x"] # Missing
        /\ req[r].session.store.store["x"] = Missing
        /\ req[r].session.store.store["user"] # Missing
        /\ memory[req[r].session.id].env = req[r].session.store

\* the names a subject holds directly or through one of its roles
Held(user, role_permissions) ==
    user.permissions \cup UNION {role_permissions[role] : role \in user.roles}

\* C15: for a subject that is not a superuser, has_permission(name) returns
\* true exactly when the name is in the subject's direct permissions or in
\* the permissions of a role the subject holds, and it returns false, without
\* raising, when the subject has no permissions and no roles.
C15_UnionSemantics ==
    (call.op = "has_permission" /\ ~subject.is_superuser)
    => /\ call.result \in {"true", "false"}
       /\ call.result = "true" <=> call.permission.name \in Held(subject, roles_table)
       /\ (subject.permissions = {} /\ subject.roles = {}) => call.result = "false"

C15_Witness ==
    /\ call.op = "has_permission" /\ ~subject.is_superuser
    /\ call.result = "true"
    /\ subject.permissions # {}
    /\ call.permission.name \notin subject.permissions
    /\ \E role \in subject.roles : call.permission.name \in roles_table[role]

\* C16: for a single name, can(name) and the dependency of
\* with_access_to(name) raise RequiresPermission exactly when the subject is
\* not a superuser and has_permission(name) is false.
C16_SingleRequire ==
    (call.op \in {"can", "with_access_to"} /\ ~call.permission.list)
    => /\ call.result \in {"ok", "forbidden"}
       /\ call.result = "forbidden"
            <=> /\ ~subject.is_superuser
                /\ ~User_has_permission(subject, roles_table, call.permission)

\* scenario D: the permission is held through a role only and the check passes
C16_Witness ==
    /\ call.op = "with_access_to" /\ ~call.permission.list
    /\ call.result = "ok"
    /\ ~subject.is_superuser
    /\ subject.permissions = {}
    /\ call.permission.name \in Held(subject, roles_table)

\* C17: a handler behind get_session_user that runs for a session with no
\* cached user and no persistent row answers 401, and the gated route run
\* for a resolved subject that lacks the required permission answers 403;
\* 401 is given only to unresolved subjects, 403 only to resolved subjects
\* lacking the permission, and neither of the two gets a 200.
C17_AuthnVersusAuthz ==
    [][\A r \in Reqs :
        (/\ req[r].pc = "handler" /\ req'[r].pc # "handler"
         /\ req'[r].route \in {"me", "logout", "gated"})
        => LET rows == user_sessions[req[r].session.id]
               unresolved == /\ getitem(req[r].session, "user") = Missing
                             /\ Len(rows) = 0
               lacking == /\ Len(rows) = 1
                          /\ req'[r].route = "gated"
                          /\ ~subject.is_superuser
                          /\ GatedName \notin Held(subject, roles_table)
           IN  /\ unresolved => req'[r].pc = "exit" /\ req'[r].response.status = 401
               /\ lacking => req'[r].pc = "exit"
                              /\ req'[r].response.status = HTTP_403_FORBIDDEN
               /\ (req'[r].pc = "exit" /\ req'[r].response.status = 401) => Len(rows) = 0
               /\ (req'[r].pc = "exit" /\ req'[r].response.status = HTTP_403_FORBIDDEN)
                    => lacking]_vars

C17_Witness ==
    \E r \in Reqs :
        /\ req[r].pc = "done" /\ req[r].route = "gated"
        /\ req[r].resolved.src = "db"
        /\ req[r].response.status = HTTP_403_FORBIDDEN
        /\ GatedName \notin Held(subject, roles_table)

NotOurs(c) ==
    \/ c.kind = "garbage"
    \/ c.kind = "signed" /\ c.key # secret_key

\* C19: a request that presents a cookie value this server's signer did not
\* produce (other secret, altered, malformed) never reaches the existence
\* check or the load, holds no identifier taken from the cookie, is attached
\* on entry the identifier the generator returns next, keeps it to the end,
\* so that clear and save act under that identifier, and does not raise on
\* entry.
C19_CookieIntegrity ==
    [][\A r \in Reqs :
        (/\ req'[r].pc # "idle" /\ ~req'[r].bypass
         /\ NotOurs(req'[r].signed_session_id))
        => /\ req'[r].pc \notin {"has", "load"}
           /\ req'[r].session_id = NoId
           /\ req'[r].entry = "COOKIE_INVALID"
           /\ req'[r].raisedIn # "entry"
           /\ req[r].pc = "idle" => /\ req'[r].session.id = uuid4(used)
                                    /\ memory' = memory
           /\ req[r].pc # "idle" => /\ req'[r].session.id = req[r].session.id
                                    /\ \A s \in Ids \ {req[r].session.id} :
                                            req'[r] # req[r] => memory'[s] = memory[s]]_vars

\* a forged cookie naming a live session: the request ran under another
\* identifier and the live session's entry is not the one it saved
C19_Witness ==
    \E r \in Reqs :
        /\ req[r].pc = "done" /\ req[r].saved
        /\ req[r].signed_session_id.kind = "signed"
        /\ req[r].signed_session_id.key # secret_key
        /\ has(memory, req[r].signed_session_id.sid)
        /\ req[r].session.id # req[r].signed_session_id.sid
        /\ req[r].wrote
        /\ memory[req[r].signed_session_id.sid].env # req[r].session.store

\* a configured pair matches the request's headers
PairMatches(pair, headers) ==
    \/ pair.header_value = "*" /\ headers[pair.header_name] # NoHeader
    \/ /\ headers[pair.header_name] # NoHeader
       /\ headers[pair.header_name] = pair.header_value

\* C20: dispatch bypasses session handling exactly when one of the configured
\* pairs matches the request (value "*" and header present, or the header's
\* value equal to the configured one); a bypassed request is attached no
\* session, none of its steps touches the store, the identifier generator or
\* the issued cookies, and the response it ends with is the handler's, with
\* the same cookies.
C20_BypassRule ==
    [][\A r \in Reqs :
        /\ (req[r].pc = "idle" /\ req'[r].pc # "idle")
           => (req'[r].bypass
               <=> \E i \in 1..Len(limits.skip) :
                        PairMatches(limits.skip[i], req'[r].headers))
        /\ (req'[r].bypass /\ req'[r] # req[r])
           => /\ ~req'[r].attached
              /\ req'[r].session = NoSession
              /\ req'[r].cookie = NoCookie
              /\ memory' = memory /\ used' = used /\ sent' = sent
              /\ req'[r].pc = "done" => req'[r].response = req'[r].returned]_vars

\* the wildcard pair matched a header whose value is not "*": the request
\* went through with the handler's cookie and nothing else
C20_Witness ==
    \E r \in Reqs :
        /\ req[r].pc = "done" /\ req[r].bypass
        /\ req[r].headers["x-health"] = "2" /\ req[r].headers["x-internal"] = NoHeader
        /\ req[r].response.cookies = {AppCookie}
        /\ req[r].signed_session_id.kind = "signed"
        /\ memory[req[r].signed_session_id.sid].env = create_session(uuid4(0), "new").store

\* ------------------------------------------------------------------- C21
\* C21: a request in which a store operation failed made that one attempt,
\* ended there with the fault propagated, and is answered with a
\* service-unavailable (503) response
C21_StoreFault ==
    \A r \in Reqs :
        req[r].raisedIn = "store" =>
            /\ req[r].pc = "raised"
            /\ req[r].response.status = 503

\* ------------------------------------------------------------------- C22
\* the checks a subject passes: has_permission over the names, can over the
\* names, the dependency of with_access_to over the names and the lists
GrantedHas(user, role_permissions) ==
    {name \in PermNames : User_has_permission(user, role_permissions, PermName(name))}

GrantedCan(user, role_permissions) ==
    {name \in PermNames : User_can(user, role_permissions, PermName(name)) = "ok"}

GrantedAccess(user, role_permissions) ==
    {permission \in {PermName(name) : name \in PermNames}
                    \cup {PermList(names) : names \in PermLists} :
        with_access_to(user, role_permissions, permission) = "ok"}

\* C22: adding a direct permission, adding a role, or adding a permission to
\* a role never turns a has_permission, can or with_access_to result of the
\* subject from granted to denied.
C22_Monotone ==
    [][/\ GrantedHas(subject, roles_table) \subseteq GrantedHas(subject', roles_table')
       /\ GrantedCan(subject, roles_table) \subseteq GrantedCan(subject', roles_table')
       /\ GrantedAccess(subject, roles_table) \subseteq GrantedAccess(subject', roles_table')]_vars

\* a role without the name was just added to a subject that is granted the
\* name through another role
C22_Witness ==
    /\ call.op = "add_role" /\ ~subject.is_superuser
    /\ \E name \in GrantedHas(subject, roles_table) :
            /\ name \notin subject.permissions
            /\ name \notin roles_table[call.result]

\* ------------------------------------------------------------------- C23
\* C23: a set or a delete on a context whose envelope is None (after clear())
\* fails with the invalid-state error InvalidSession, and the envelope is
\* still None afterwards.
C23_WriteOnCleared ==
    \A r \in Reqs :
        (/\ req[r].pc = "raised" /\ req[r].raisedIn = "handler"
         /\ req[r].cleared /\ req[r].error # "Exception")
        => /\ req[r].error = "InvalidSession"
           /\ req[r].session.store.none

\* ------------------------------------------------------------------- C24
\* C24: whatever happens to the store entry between the existence check and
\* the load (a concurrent clear, TTL expiry), and whatever its content,
\* dispatch does not fault before the handler runs, and the context the
\* handler is given has a present envelope.
C24_LiveSession ==
    \A r \in Reqs :
        /\ ~req[r].bypass => req[r].raisedIn # "entry"
        /\ JustAttached(r) => ~req[r].session.store.none

\* ------------------------------------------------------------------- C25
\* C25: once a request's clear() has deleted the store entry of its session
\* identifier, the store holds no entry for that identifier: no request that
\* loaded it earlier re-creates it by saving at its exit.
C25_NoResurrection ==
    \A r \in Reqs :
        req[r].cleared => ~has(memory, req[r].session.id)

\* ------------------------------------------------------------------- C26
\* C26: when dispatch puts a Set-Cookie for a signed identifier on the
\* response, that identifier is the request's session identifier and the
\* same exit step has saved the session's envelope under it; a request whose
\* save failed returns no response carrying the cookie.
C26_SaveBeforeCookie ==
    /\ [][\A r \in Reqs :
            (/\ SignedSetCookies(req[r].response) = {}
             /\ SignedSetCookies(req'[r].response) # {})
            => /\ req[r].pc = "exit"
               /\ \A c \in SignedSetCookies(req'[r].response) :
                    /\ c.signed.sid = req[r].session.id
                    /\ memory'[c.signed.sid] =
                            json_dumps(req[r].session.store, SessionTtl)]_vars
    /\ [](\A r \in Reqs :
            req[r].raisedIn = "store" => SignedSetCookies(req[r].response) = {})

\* a response left with the cookie of a session that had no entry before
C26_Witness ==
    \E r \in Reqs :
        /\ req[r].pc = "done" /\ req[r].entry = "COOKIE_VALID_NO_STORE"
        /\ SignedSetCookies(req[r].response) # {}
        /\ memory[req[r].session.id] = json_dumps(req[r].session.store, SessionTtl)

\* ------------------------------------------------------------------- C27
\* C27: every Set-Cookie the handler put on its response for a cookie other
\* than the session cookie is still on the response dispatch returns, when
\* dispatch issues a session cookie and when it deletes the session cookie.
C27_HandlerCookiesKept ==
    [][\A r \in Reqs :
        (req[r].pc = "exit" /\ req'[r].pc = "done")
        => \A c \in req[r].response.cookies :
                c.name # session_cookie_name => c \in req'[r].response.cookies]_vars

\* ------------------------------------------------------------------- C28
\* C28: after the logout of session identifier S ran (row deleted, store
\* entry cleared) and until a login succeeds under S, a request presenting
\* the cookie of S that asks for the session user resolves no subject and is
\* answered 401.
C28_LogoutFinal ==
    [][\A r \in Reqs :
        (/\ CookieId(r) \in logged_out
         /\ req[r].route = "" /\ req'[r].route \in {"me", "gated", "logout"})
        => /\ req'[r].resolved.src = "none"
           /\ req'[r].response.status = 401]_vars

\* a request with the cookie of a logged-out session asked for the user
C28_Witness ==
    \E r \in Reqs :
        /\ CookieId(r) \in logged_out
        /\ req[r].route = "me" /\ req[r].pc = "exit"
        /\ req[r].entry = "COOKIE_VALID_NO_STORE"
        /\ req[r].response.status = 401

\* ------------------------------------------------------------------- C29
\* C29: get_session_user never returns a user whose is_active flag is false
\* or who is soft-deleted, also when the session was established before the
\* user was deactivated; login succeeds only for an active, not deleted user.
C29_ActiveOnly ==
    [][\A r \in Reqs :
        /\ (req[r].route = "" /\ req'[r].route \in {"me", "gated", "logout"})
            => \A u \in Users :
                    (req'[r].resolved.src # "none" /\ req'[r].resolved.user = u)
                    => accounts[u].is_active /\ ~accounts[u].deleted
        /\ (req[r].route = "" /\ req'[r].route = "login"
            /\ req'[r].response.status = 200)
            => \A u \in Users :
                    getitem(req'[r].session, "user") = model_dump(u)
                    => accounts[u].is_active /\ ~accounts[u].deleted]_vars

\* ------------------------------------------------------------------- C30
\* C30: get_store returns None when the key is absent and when the stored
\* value does not deserialize as JSON, raises no parse error in either case,
\* returns the saved envelope otherwise, and leaves the store unchanged.
C30_GetStore ==
    [][\A id \in Ids :
        (probe'.op = "get_store" /\ probe'.id = id /\ memory' = memory)
        => /\ ~probe'.raised
           /\ memory[id].kind \in {"absent", "corrupt"} => probe'.value = NoneEnvelope
           /\ memory[id].kind = "json" => probe'.value = memory[id].env]_vars
    /\ [][probe'.op = "get_store" => memory' = memory]_vars

\* get_store was called on a key holding a value that is not JSON
C30_Witness ==
    /\ probe.op = "get_store" /\ memory[probe.id] = RedisCorrupt
    /\ ~probe.raised /\ probe.value = NoneEnvelope

====
